---- MODULE Spec2Model ----
(***************************************************************************)
(* bytenode (src/index.ts): compiling JavaScript to V8 cached data,        *)
(* patching the cached-data header, running it, loading .jsc modules, and  *)
(* compiling through an Electron child process.                            *)
(*                                                                         *)
(* Conventions.  A JavaScript string is a sequence of one-character        *)
(* strings; a Buffer is a sequence of bytes, byte offset i of the Buffer   *)
(* being element i + 1 of the sequence.  A JavaScript value is a record    *)
(* [type, val].  A call that can throw is an operator whose result is a    *)
(* record with the fields threw and error.                                 *)
(***************************************************************************)
EXTENDS Integers, Sequences, FiniteSets, TLC

VARIABLES
    version,            \* process.version
    build,              \* the engine build: decides the header bytes V8 emits
    verdict,            \* what the engine does with the artifact's cached data
    electronInstalled,  \* node_modules/electron/cli.js exists
    bytecodeBuffer,     \* the caller's Buffer (patched in place)
    original,           \* the bytes the caller's Buffer was created with
    patchedOnce,        \* the caller's Buffer right after its first patch
    patches,            \* how many times the caller's Buffer was patched
    call,               \* the last synchronous API call and its outcome
    files,              \* the file system: path -> content
    proc,               \* the Electron child process
    promise,            \* the promise compileElectronCode returned
    pending             \* the compileFile call suspended at its await

vars == <<version, build, verdict, electronInstalled, bytecodeBuffer, original,
          patchedOnce, patches, call, files, proc, promise, pending>>

-----------------------------------------------------------------------------
(* Bounds of the model *)

\* the longest Buffer handed to the patcher, the reader and the runner
MaxBufLen == 26
\* how many times one Buffer is patched directly
MaxPatches == 2
\* how many chunks the child's stdout emits
MaxChunks == 2
\* the length of the cached data the engine emits (header bytes only)
HeaderLen == 24

-----------------------------------------------------------------------------
(* JavaScript strings and values *)

Min(a, b) == IF a < b THEN a ELSE b

\* String.prototype.startsWith
startsWith(s, prefix) ==
    /\ Len(prefix) <= Len(s)
    /\ SubSeq(s, 1, Len(prefix)) = prefix

\* String.prototype.repeat
repeat(c, n) == [i \in 1..n |-> c]

Str(s) == [type |-> "string", val |-> s]
Buf(b) == [type |-> "Buffer", val |-> b]
Undefined == [type |-> "undefined", val |-> <<>>]
Null == [type |-> "null", val |-> <<>>]
True == [type |-> "boolean", val |-> <<"true">>]
False == [type |-> "boolean", val |-> <<"false">>]
Number42 == [type |-> "number", val |-> <<"42">>]

\* the BytenodeOptions object of lines 166-173: every property is there, undefined when not given
Options(filename, compileAsModule, electron, createLoader, loaderFilename, output) ==
    [type |-> "object",
     val |-> [filename |-> filename, compileAsModule |-> compileAsModule,
              electron |-> electron, createLoader |-> createLoader,
              loaderFilename |-> loaderFilename, output |-> output]]

\* ToBoolean, for the values of the model (the only number is 42)
truthy(x) ==
    CASE x.type = "boolean" -> x = True
      [] x.type = "string" -> x.val # <<>>
      [] x.type \in {"undefined", "null"} -> FALSE
      [] OTHER -> TRUE

\* the least index where pattern occurs in s, 0 when it does not
indexOf(s, pattern) ==
    LET hits == { i \in 1..(Len(s) - Len(pattern) + 1) :
                    SubSeq(s, i, i + Len(pattern) - 1) = pattern }
    IN IF hits = {} THEN 0 ELSE CHOOSE i \in hits : \A j \in hits : i <= j

\* String.prototype.replace(pattern, by) with a string pattern: the first
\* occurrence only
replace(s, pattern, by) ==
    LET i == indexOf(s, pattern)
    IN IF i = 0 THEN s
       ELSE SubSeq(s, 1, i - 1) \o by \o SubSeq(s, i + Len(pattern), Len(s))

\* Buffer.isBuffer
isBuffer(x) == x.type = "Buffer"

\* typeof
typeof(x) ==
    IF x.type \in {"Buffer", "Uint8Array", "object", "null"} THEN "object" ELSE x.type

\* Buffer.prototype.slice(start, end), both clipped to the length
slice(b, start, end) == SubSeq(b, Min(start, Len(b)) + 1, Min(end, Len(b)))

\* source.copy(target, targetStart): copies what fits, never grows the target
copy(source, target, targetStart) ==
    LET n == IF targetStart >= Len(target) THEN 0
             ELSE Min(Len(source), Len(target) - targetStart)
    IN  [i \in 1..Len(target) |->
            IF targetStart < i /\ i <= targetStart + n
            THEN source[i - targetStart] ELSE target[i]]

-----------------------------------------------------------------------------
(* The engine *)

V88 == <<"v", "8", ".", "8">>
V89 == <<"v", "8", ".", "9">>
V12 == <<"v", "1", "2">>
V13 == <<"v", "1", "3">>
V14 == <<"v", "1", "4">>
V15 == <<"v", "1", "5">>

Versions ==
    { V88 \o <<".", "1">>, V89 \o <<".", "4">>,
      <<"v", "8", ".", "1", "0", ".", "0">>,
      V12 \o <<".", "2", "2">>, V13 \o <<".", "1", "4">>,
      V14 \o <<".", "2", "1">>, V15 \o <<".", "1", "4">>,
      <<"v", "1", "6", ".", "2", "0">> }

Builds == {97}

\* byte i (0..3) of n in base 256, least significant first
ByteOf(n, i) ==
    CASE i = 0 -> n % 256
      [] i = 1 -> (n \div 256) % 256
      [] i = 2 -> (n \div 65536) % 256
      [] i = 3 -> (n \div 16777216) % 256

\* a header byte that is not a source-length field
Filler(seed, i) == (seed + 5 * i) % 128

\* A cached-data Buffer of len bytes whose source-length field holds n.  The
\* field sits at offsets 8..11, and at 12..15 in the v8.8/v8.9 layout; both
\* places carry n so that the Buffer decodes to n in every layout.
CacheBytes(len, seed, n) ==
    [i \in 1..len |->
        IF i - 1 \in 8..11 THEN ByteOf(n, i - 9)
        ELSE IF i - 1 \in 12..15 THEN ByteOf(n, i - 13)
        ELSE Filler(seed, i)]

\* one character each: U+0CA0 and U+200B (zero width space)
LookOfDisapproval == "u0ca0"
ZeroWidthSpace == "u200b"

\* the source of the reference compile, line 102: a quoted string of three
\* characters, U+0CA0 _ U+0CA0
DummySource == <<"\"", LookOfDisapproval, "_", LookOfDisapproval, "\"">>

\* What the engine does with the cached data of the artifact: it rejects it
\* (script.cachedDataRejected), or it accepts it and running the script
\* completes with a value or throws.
Verdicts ==
    { [rejected |-> TRUE, threw |-> FALSE, value |-> ""],
      [rejected |-> FALSE, threw |-> FALSE, value |-> "2"],
      [rejected |-> FALSE, threw |-> FALSE, value |-> "42"],
      [rejected |-> FALSE, threw |-> TRUE, value |-> "ScriptError"] }

\* one entry of a call's log: a step of the call, or a call into the engine
Step(fn, src, cache, args) == [fn |-> fn, src |-> src, cache |-> cache, args |-> args]

COMPILED_EXTNAME == <<".", "j", "s", "c">>

\* Module.wrapper[0] and Module.wrapper[1], the text Module.wrap puts around
\* the source (line 220)
ModuleWrapperHead ==
    <<"(", "f", "u", "n", "c", "t", "i", "o", "n", " ", "(", "e", "x", "p",
      "o", "r", "t", "s", ",", " ", "r", "e", "q", "u", "i", "r", "e", ",",
      " ", "m", "o", "d", "u", "l", "e", ",", " ", "_", "_", "f", "i", "l",
      "e", "n", "a", "m", "e", ",", " ", "_", "_", "d", "i", "r", "n", "a",
      "m", "e", ")", " ", "{", " ">>
ModuleWrapperTail == <<"\n", "}", ")", ";">>

\* Module.wrap
wrap(script) == ModuleWrapperHead \o script \o ModuleWrapperTail

-----------------------------------------------------------------------------
(* compileCode, lines 21-36 *)

compileCode(javascriptCode) ==
    IF typeof(javascriptCode) # "string"
    THEN [threw |-> TRUE, error |-> "InvalidArgument", value |-> <<>>, log |-> <<>>]
    ELSE [threw |-> FALSE, error |-> "",
          value |-> CacheBytes(HeaderLen, build, Len(javascriptCode.val)),
          log |-> <<Step("vm.Script", javascriptCode.val, <<>>, <<"produceCachedData">>)>>]

-----------------------------------------------------------------------------
(* fixBytecode, lines 97-117: patches the caller's Buffer in place *)

\* fixBytecode with the second range of each layout copied from the target
\* itself instead of the reference Buffer
fixBytecodeFromTarget(bytecodeArg) ==
    IF ~isBuffer(bytecodeArg)
    THEN [threw |-> TRUE, error |-> "InvalidArgument", buf |-> bytecodeArg, log |-> <<>>]
    ELSE
      LET dummy == compileCode(Str(DummySource))
          dummyBytecode == dummy.value
          b == bytecodeArg.val
          patched ==
            IF startsWith(version, V88) \/ startsWith(version, V89)
            THEN copy(slice(dummyBytecode, 20, 24),
                      copy(slice(b, 20, 24), b, 16), 20)
            ELSE IF \/ startsWith(version, V12) \/ startsWith(version, V13)
                    \/ startsWith(version, V14) \/ startsWith(version, V15)
            THEN copy(slice(b, 16, 20), b, 12)
            ELSE copy(slice(dummyBytecode, 16, 20),
                      copy(slice(b, 16, 20), b, 12), 16)
      IN [threw |-> FALSE, error |-> "", buf |-> Buf(patched), log |-> dummy.log]

\* fixBytecode with every range one byte too far
fixBytecodeOffByOne(bytecodeArg) ==
    IF ~isBuffer(bytecodeArg)
    THEN [threw |-> TRUE, error |-> "InvalidArgument", buf |-> bytecodeArg, log |-> <<>>]
    ELSE
      LET dummy == compileCode(Str(DummySource))
          dummyBytecode == dummy.value
          b == bytecodeArg.val
          patched ==
            IF startsWith(version, V88) \/ startsWith(version, V89)
            THEN copy(slice(dummyBytecode, 21, 25),
                      copy(slice(dummyBytecode, 17, 21), b, 17), 21)
            ELSE IF \/ startsWith(version, V12) \/ startsWith(version, V13)
                    \/ startsWith(version, V14) \/ startsWith(version, V15)
            THEN copy(slice(dummyBytecode, 13, 17), b, 13)
            ELSE copy(slice(dummyBytecode, 17, 21),
                      copy(slice(dummyBytecode, 13, 17), b, 13), 17)
      IN [threw |-> FALSE, error |-> "", buf |-> Buf(patched), log |-> dummy.log]

fixBytecode(bytecodeArg) ==
    IF ~isBuffer(bytecodeArg)
    THEN [threw |-> TRUE, error |-> "InvalidArgument", buf |-> bytecodeArg, log |-> <<>>]
    ELSE
      LET dummy == compileCode(Str(DummySource))
          dummyBytecode == dummy.value
          b == bytecodeArg.val
          patched ==
            IF startsWith(version, V88) \/ startsWith(version, V89)
            THEN copy(slice(dummyBytecode, 20, 24),
                      copy(slice(dummyBytecode, 16, 20), b, 16), 20)
            ELSE IF \/ startsWith(version, V12) \/ startsWith(version, V13)
                    \/ startsWith(version, V14) \/ startsWith(version, V15)
            THEN copy(slice(dummyBytecode, 12, 16), b, 12)
            ELSE copy(slice(dummyBytecode, 16, 20),
                      copy(slice(dummyBytecode, 12, 16), b, 12), 16)
      IN [threw |-> FALSE, error |-> "", buf |-> Buf(patched), log |-> dummy.log]

-----------------------------------------------------------------------------
(* readSourceHash, lines 120-133 *)

\* bytes.reduce((sum, number, power) => sum += number * Math.pow(256, power), 0)
RECURSIVE reduce(_, _)
reduce(bytes, power) ==
    IF power > Len(bytes) THEN 0
    ELSE bytes[power] * (256 ^ (power - 1)) + reduce(bytes, power + 1)

\* readSourceHash without the version branch: the v8.8/v8.9 offset everywhere
readSourceHashOneOffset(bytecodeArg) ==
    IF ~isBuffer(bytecodeArg)
    THEN [threw |-> TRUE, error |-> "InvalidArgument", value |-> 0]
    ELSE [threw |-> FALSE, error |-> "", value |-> reduce(slice(bytecodeArg.val, 12, 16), 1)]

readSourceHash(bytecodeArg) ==
    IF ~isBuffer(bytecodeArg)
    THEN [threw |-> TRUE, error |-> "InvalidArgument", value |-> 0]
    ELSE IF startsWith(version, V88) \/ startsWith(version, V89)
    THEN [threw |-> FALSE, error |-> "", value |-> reduce(slice(bytecodeArg.val, 12, 16), 1)]
    ELSE [threw |-> FALSE, error |-> "", value |-> reduce(slice(bytecodeArg.val, 8, 12), 1)]

-----------------------------------------------------------------------------
(* runBytecode, lines 140-164 *)

\* lines 149-153 and 265-269: the placeholder source
dummyCode(length) ==
    IF length > 1 THEN <<"\"">> \o repeat(ZeroWidthSpace, length - 2) \o <<"\"">> ELSE <<>>

\* runBytecode running the script before it looks at cachedDataRejected
runBytecodeRunFirst(bytecodeArg) ==
    IF ~isBuffer(bytecodeArg)
    THEN [threw |-> TRUE, error |-> "InvalidArgument", value |-> "",
          buf |-> bytecodeArg, log |-> <<>>]
    ELSE
      LET fixed == fixBytecode(bytecodeArg)
          length == readSourceHash(fixed.buf).value
          src == dummyCode(length)
          ran == fixed.log \o
                 <<Step("vm.Script", src, fixed.buf.val, <<"cachedData">>),
                   Step("runInThisContext", <<>>, <<>>, <<>>)>>
      IN IF verdict.rejected
         THEN [threw |-> TRUE, error |-> "IncompatibleCache", value |-> "",
               buf |-> fixed.buf, log |-> ran]
         ELSE [threw |-> verdict.threw,
               error |-> IF verdict.threw THEN verdict.value ELSE "",
               value |-> IF verdict.threw THEN "" ELSE verdict.value,
               buf |-> fixed.buf, log |-> ran]

\* runBytecode taking any byte array for a Buffer
runBytecodeCoerce(bytecodeArg) ==
    IF bytecodeArg.type \notin {"Buffer", "Uint8Array"}
    THEN [threw |-> TRUE, error |-> "InvalidArgument", value |-> "",
          buf |-> bytecodeArg, log |-> <<>>]
    ELSE
      LET fixed == fixBytecode(Buf(bytecodeArg.val))
          length == readSourceHash(fixed.buf).value
          src == dummyCode(length)
          compiled == fixed.log \o <<Step("vm.Script", src, fixed.buf.val, <<"cachedData">>)>>
      IN IF verdict.rejected
         THEN [threw |-> TRUE, error |-> "IncompatibleCache", value |-> "",
               buf |-> fixed.buf, log |-> compiled]
         ELSE [threw |-> verdict.threw,
               error |-> IF verdict.threw THEN verdict.value ELSE "",
               value |-> IF verdict.threw THEN "" ELSE verdict.value,
               buf |-> fixed.buf,
               log |-> compiled \o <<Step("runInThisContext", <<>>, <<>>, <<>>)>>]

runBytecode(bytecodeArg) ==
    IF ~isBuffer(bytecodeArg)
    THEN [threw |-> TRUE, error |-> "InvalidArgument", value |-> "",
          buf |-> bytecodeArg, log |-> <<>>]
    ELSE
      LET fixed == fixBytecode(bytecodeArg)
          length == readSourceHash(fixed.buf).value
          src == dummyCode(length)
          compiled == fixed.log \o <<Step("vm.Script", src, fixed.buf.val, <<"cachedData">>)>>
      IN IF verdict.rejected
         THEN [threw |-> TRUE, error |-> "IncompatibleCache", value |-> "",
               buf |-> fixed.buf, log |-> compiled]
         ELSE [threw |-> verdict.threw,
               error |-> IF verdict.threw THEN verdict.value ELSE "",
               value |-> IF verdict.threw THEN "" ELSE verdict.value,
               buf |-> fixed.buf,
               log |-> compiled \o <<Step("runInThisContext", <<>>, <<>>, <<>>)>>]

-----------------------------------------------------------------------------
(* The file system *)

SourceFile == <<"a", ".", "j", "s">>
ArtifactFile == <<"a">> \o COMPILED_EXTNAME
MissingFile == <<"m", ".", "j", "s", "c">>

\* the text of SourceFile: an interpreter line, then 1+1
SourceText == <<"#", "!", "n", "\n", "1", "+", "1">>

\* fs.readFileSync: throws when there is no such file
readFileSync(filename) ==
    IF filename \in DOMAIN files
    THEN [threw |-> FALSE, error |-> "", value |-> files[filename]]
    ELSE [threw |-> TRUE, error |-> "ENOENT", value |-> <<>>]

\* fs.writeFileSync
writeFileSync(fs, filename, content) ==
    [f \in DOMAIN fs \cup {filename} |-> IF f = filename THEN content ELSE fs[f]]

-----------------------------------------------------------------------------
(* runBytecodeFile, lines 247-255 *)

runBytecodeFile(filename) ==
    IF typeof(filename) # "string"
    THEN [threw |-> TRUE, error |-> "InvalidArgument", value |-> "",
          buf |-> filename, log |-> <<>>]
    ELSE
      LET read == readFileSync(filename.val)
      IN IF read.threw
         THEN [threw |-> TRUE, error |-> read.error, value |-> "",
               buf |-> filename, log |-> <<>>]
         ELSE runBytecode(Buf(read.value))

-----------------------------------------------------------------------------
(* Module._extensions['.jsc'], lines 258-315 *)

\* line 312: the arguments the compiled wrapper is applied to
WrapperArgs ==
    <<"module.exports", "require", "module", "filename", "dirname", "process", "global">>

\* lines 219-220: the parameters of the function Module.wrap wraps the source in
ModuleWrapParams == <<"exports", "require", "module", "__filename", "__dirname">>

\* the loader applying the wrapper to (module, exports, ...) instead
extensionsJscSwapped(filename) ==
    LET read == readFileSync(filename)
    IN IF read.threw
       THEN [threw |-> TRUE, error |-> read.error, value |-> "",
             buf |-> Str(filename), log |-> <<>>]
       ELSE
         LET fixed == fixBytecode(Buf(read.value))
             length == readSourceHash(fixed.buf).value
             src == dummyCode(length)
             compiled == fixed.log \o
                 <<Step("vm.Script", src, fixed.buf.val,
                        <<"filename", "lineOffset", "displayErrors", "cachedData">>)>>
         IN IF verdict.rejected
            THEN [threw |-> TRUE, error |-> "IncompatibleCache", value |-> "",
                  buf |-> fixed.buf, log |-> compiled]
            ELSE [threw |-> verdict.threw,
                  error |-> IF verdict.threw THEN verdict.value ELSE "",
                  value |-> IF verdict.threw THEN "" ELSE verdict.value,
                  buf |-> fixed.buf,
                  log |-> compiled \o
                      <<Step("runInThisContext", <<>>, <<>>,
                             <<"filename", "lineOffset", "columnOffset", "displayErrors">>),
                        Step("compiledWrapper.apply", <<>>, <<>>,
                             <<"module", "require", "module.exports", "filename",
                               "dirname", "process", "global">>)>>]

extensionsJsc(filename) ==
    LET read == readFileSync(filename)
    IN IF read.threw
       THEN [threw |-> TRUE, error |-> read.error, value |-> "",
             buf |-> Str(filename), log |-> <<>>]
       ELSE
         LET fixed == fixBytecode(Buf(read.value))
             length == readSourceHash(fixed.buf).value
             src == dummyCode(length)
             compiled == fixed.log \o
                 <<Step("vm.Script", src, fixed.buf.val,
                        <<"filename", "lineOffset", "displayErrors", "cachedData">>)>>
         IN IF verdict.rejected
            THEN [threw |-> TRUE, error |-> "IncompatibleCache", value |-> "",
                  buf |-> fixed.buf, log |-> compiled]
            ELSE [threw |-> verdict.threw,
                  error |-> IF verdict.threw THEN verdict.value ELSE "",
                  value |-> IF verdict.threw THEN "" ELSE verdict.value,
                  buf |-> fixed.buf,
                  log |-> compiled \o
                      <<Step("runInThisContext", <<>>, <<>>,
                             <<"filename", "lineOffset", "columnOffset", "displayErrors">>),
                        Step("compiledWrapper.apply", <<>>, <<>>, WrapperArgs)>>]

-----------------------------------------------------------------------------
(* Inputs *)

\* the source lengths the cached data of the inputs carry
SourceLengths == {0, 1, 2, 258}

\* the Buffers handed to the patcher, the reader and the runner
Buffers ==
    { CacheBytes(len, 3, n) : len \in 0..MaxBufLen, n \in SourceLengths }

\* arguments of runBytecode that are no Buffer
NonBuffers ==
    { Str(SourceText), Number42, Undefined,
      [type |-> "Uint8Array", val |-> CacheBytes(HeaderLen, 3, 3)] }

\* arguments of runBytecodeFile
Filenames ==
    { Str(ArtifactFile), Str(MissingFile), Number42, Undefined }

NoCall ==
    [op |-> "none", arg |-> Undefined, after |-> Undefined, threw |-> FALSE,
     error |-> "", value |-> "", log |-> <<>>, delivery |-> "none"]

\* the record of a synchronous call: its argument before and after, and how it
\* ended: it returned or it threw
SyncCall(op, arg, r) ==
    [op |-> op, arg |-> arg, after |-> r.buf, threw |-> r.threw, error |-> r.error,
     value |-> r.value, log |-> r.log,
     delivery |-> IF r.threw THEN "throw" ELSE "return"]

\* arguments of compileCode
CompileCodeArgs == { Str(SourceText), Number42, Undefined }

OutFile == <<"o">> \o COMPILED_EXTNAME
OtherOutFile == <<"p">> \o COMPILED_EXTNAME
LoaderPattern == <<"%", ".", "l", ".", "j", "s">>

\* first arguments of compileFile
CompileArgs ==
    { Str(SourceFile), Number42, Undefined, Null }
    \cup { Options(Undefined, Undefined, Undefined, Undefined, Undefined, Undefined) }
    \cup { Options(Str(SourceFile), how[1], electron, createLoader, loaderFilename,
                   how[2]) :
             how \in { <<Undefined, Undefined>>, <<False, Undefined>>,
                       <<Undefined, Str(OutFile)>>, <<Undefined, Number42>> },
             electron \in {Undefined, True},
             createLoader \in {Undefined, False, True},
             loaderFilename \in {Undefined, Str(LoaderPattern)} }

\* second arguments of compileFile
CompileOutputs == { Undefined, Str(OtherOutFile) }

NoProc ==
    [state |-> "none", stdin |-> <<>>, chunks |-> 0, emitted |-> <<>>, data |-> <<>>,
     ended |-> FALSE, exited |-> FALSE, failed |-> FALSE]
NoPromise == [state |-> "none", value |-> <<>>, error |-> "", settles |-> 0]
NoPending == [state |-> "none"]

-----------------------------------------------------------------------------
(* The operations on the caller's Buffer *)

asyncVars == <<proc, promise, pending>>

\* The model follows the calls of the API one at a time: a call is made while
\* no compile is in flight, and one compileFile or compileElectronCode call is
\* followed to its end.
Quiet == proc.state = "none" /\ promise.state = "none" /\ pending.state = "none"
envVars == <<version, build, verdict, electronInstalled>>

\* the patched Buffer as the caller sees it afterwards
Patched(r) ==
    /\ bytecodeBuffer' = r.buf.val
    /\ patchedOnce' = IF patches = 0 THEN r.buf.val ELSE patchedOnce
    /\ patches' = patches + 1

FixBytecode ==
    /\ Quiet
    /\ patches < MaxPatches
    /\ LET r == fixBytecode(Buf(bytecodeBuffer))
       IN /\ Patched(r)
          /\ call' = SyncCall("fixBytecode", Buf(bytecodeBuffer), r @@ [value |-> ""])
    /\ UNCHANGED <<envVars, original, files, asyncVars>>

RunBytecode ==
    /\ Quiet
    /\ patches < MaxPatches
    /\ \E arg \in {Buf(bytecodeBuffer)} \cup NonBuffers :
          LET r == runBytecode(arg)
          IN /\ call' = SyncCall("runBytecode", arg, r)
             /\ IF isBuffer(arg) THEN Patched(r)
                ELSE UNCHANGED <<bytecodeBuffer, patchedOnce, patches>>
    /\ UNCHANGED <<envVars, original, files, asyncVars>>

RunBytecodeFile ==
    /\ Quiet
    /\ \E filename \in Filenames :
          call' = SyncCall("runBytecodeFile", filename, runBytecodeFile(filename))
    /\ UNCHANGED <<envVars, bytecodeBuffer, original, patchedOnce, patches, files, asyncVars>>

\* require() of a .jsc file
LoadJsc ==
    /\ Quiet
    /\ \E filename \in {ArtifactFile} :
          call' = SyncCall("Module._extensions.jsc", Str(filename), extensionsJsc(filename))
    /\ UNCHANGED <<envVars, bytecodeBuffer, original, patchedOnce, patches, files, asyncVars>>

-----------------------------------------------------------------------------
(* The specification of the load side: one Buffer, held by the caller and    *)
(* stored in the artifact file, is patched, run and loaded                   *)

Init ==
    /\ version \in Versions
    /\ build \in Builds
    /\ verdict \in Verdicts
    /\ electronInstalled = TRUE
    /\ bytecodeBuffer \in Buffers
    /\ original = bytecodeBuffer
    /\ patchedOnce = <<>>
    /\ patches = 0
    /\ call = NoCall
    /\ files = (SourceFile :> SourceText) @@ (ArtifactFile :> bytecodeBuffer)
    /\ proc = NoProc
    /\ promise = NoPromise
    /\ pending = NoPending

Next ==
    \/ FixBytecode
    \/ RunBytecode
    \/ RunBytecodeFile
    \/ LoadJsc

Spec == Init /\ [][Next]_vars

-----------------------------------------------------------------------------
(* compileElectronCode, lines 44-94 *)

\* the chunks the child's stdout can emit
Chunks == { <<7>>, <<8, 9>> }

\* resolve(value) and reject(error): the first one settles the promise, the
\* later ones do nothing
resolve(p, value) ==
    IF p.state = "pending"
    THEN [state |-> "resolved", value |-> value, error |-> "", settles |-> p.settles + 1]
    ELSE p
reject(p, error) ==
    IF p.state = "pending"
    THEN [state |-> "rejected", value |-> <<>>, error |-> error, settles |-> p.settles + 1]
    ELSE p

PendingPromise == [state |-> "pending", value |-> <<>>, error |-> "", settles |-> 0]

\* compileElectronCode without the look for node_modules/electron/cli.js
compileElectronCodeNoLook(javascriptCode) ==
    [proc |-> [state |-> "running", stdin |-> javascriptCode.val, chunks |-> 0,
               emitted |-> <<>>, data |-> <<>>, ended |-> FALSE,
               exited |-> FALSE, failed |-> FALSE],
     promise |-> PendingPromise]

\* Lines 46-93, the executor of the promise: a throw in it rejects the promise.
\* The result is the child process and the promise as the call leaves them.
compileElectronCode(javascriptCode) ==
    IF ~electronInstalled
    THEN [proc |-> NoProc, promise |-> reject(PendingPromise, "InvalidArgument")]
    ELSE [proc |-> [state |-> "running", stdin |-> javascriptCode.val, chunks |-> 0,
                    emitted |-> <<>>, data |-> <<>>, ended |-> FALSE,
                    exited |-> FALSE, failed |-> FALSE],
          promise |-> PendingPromise]

\* no event of the child is handled while a continuation waits on a settled
\* promise: it runs first, as a microtask
Idle == ~(pending.state = "awaiting" /\ promise.state \in {"resolved", "rejected"})

CompileElectronCode ==
    /\ Quiet
    /\ \E javascriptCode \in {Str(SourceText)} :
          LET r == compileElectronCode(javascriptCode)
          IN /\ proc' = r.proc
             /\ promise' = r.promise
             /\ call' = [op |-> "compileElectronCode", arg |-> javascriptCode,
                         after |-> javascriptCode, threw |-> FALSE, error |-> "",
                         value |-> "", log |-> <<>>, delivery |-> "promise"]
    /\ UNCHANGED <<envVars, bytecodeBuffer, original, patchedOnce, patches, files, pending>>

\* lines 68-70: proc.stdout emits 'data'
StdoutData ==
    /\ proc.state = "running" /\ Idle
    /\ ~proc.ended /\ proc.chunks < MaxChunks
    /\ \E chunk \in Chunks :
          proc' = [proc EXCEPT !.chunks = @ + 1, !.emitted = @ \o chunk,
                               !.data = @ \o chunk]
    /\ UNCHANGED <<envVars, bytecodeBuffer, original, patchedOnce, patches, call, files,
                   promise, pending>>

\* lines 74-76: proc.stdout emits 'end'
StdoutEnd ==
    /\ proc.state = "running" /\ Idle
    /\ ~proc.ended
    /\ proc' = [proc EXCEPT !.ended = TRUE]
    /\ promise' = resolve(promise, proc.data)
    /\ UNCHANGED <<envVars, bytecodeBuffer, original, patchedOnce, patches, call, files,
                   pending>>

\* line 92: proc emits 'exit'; its stdout may still hold what the child wrote
ProcExit ==
    /\ proc.state = "running" /\ Idle
    /\ ~proc.exited
    /\ proc' = [proc EXCEPT !.exited = TRUE]
    /\ promise' = resolve(promise, proc.data)
    /\ UNCHANGED <<envVars, bytecodeBuffer, original, patchedOnce, patches, call, files,
                   pending>>

\* line 91: proc emits 'error' (it could not be spawned or killed, or a
\* message could not be sent); 'exit' may or may not follow
ProcError ==
    /\ proc.state = "running" /\ Idle
    /\ ~proc.exited /\ ~proc.failed
    /\ proc' = [proc EXCEPT !.failed = TRUE]
    /\ promise' = reject(promise, "ChildProcessError")
    /\ UNCHANGED <<envVars, bytecodeBuffer, original, patchedOnce, patches, call, files,
                   pending>>

-----------------------------------------------------------------------------
(* addLoaderFile and loaderCode, lines 322-340.  Paths have no directory part *)

\* path.parse(p).name
parsedName(p) ==
    LET dots == { i \in 2..Len(p) : p[i] = "." }
    IN IF dots = {} THEN p
       ELSE SubSeq(p, 1, (CHOOSE i \in dots : \A j \in dots : j <= i) - 1)

\* path.dirname, path.join and path.relative
dirname(p) == <<".">>
join(dir, name) == IF dir = <<".">> THEN name ELSE dir \o <<"/">> \o name
relative(from, to) == IF from = <<".">> THEN to ELSE <<".", ".", "/">> \o to

loaderCode(relativePath) ==
    <<"const bytenode = require('bytenode');", "require('./">> \o relativePath \o <<"');">>

\* the file system after the call, and the path written
addLoaderFile(fs, fileToLoad, loaderFilename) ==
    LET loaderFilePath ==
            IF \/ loaderFilename.type = "boolean"
               \/ loaderFilename.type = "undefined"
               \/ (loaderFilename.type = "string" /\ loaderFilename.val = <<>>)
            THEN replace(fileToLoad, COMPILED_EXTNAME,
                         <<".", "l", "o", "a", "d", "e", "r", ".", "j", "s">>)
            ELSE join(dirname(fileToLoad),
                      replace(loaderFilename.val, <<"%">>, parsedName(fileToLoad)))
        relativePath == relative(dirname(loaderFilePath), fileToLoad)
    IN [files |-> writeFileSync(fs, loaderFilePath, loaderCode(relativePath)),
        path |-> loaderFilePath]

-----------------------------------------------------------------------------
(* compileFile, lines 187-240 *)

\* javascriptCode.replace(/^#!.*/, ''): drops a leading interpreter line up to,
\* not including, its line terminator
stripShebang(text) ==
    IF startsWith(text, <<"#", "!">>)
    THEN LET nl == indexOf(text, <<"\n">>)
         IN IF nl = 0 THEN <<>> ELSE SubSeq(text, nl, Len(text))
    ELSE text

Thrown(error) ==
    [threw |-> TRUE, error |-> error, compiledFilename |-> <<>>, code |-> <<>>,
     electron |-> Undefined, createLoader |-> Undefined, loaderFilename |-> Undefined]

\* Lines 188-223: the call up to the compile.  The result is what the rest of
\* the call needs, or what was thrown.
compileFileStart(args, output) ==
    IF typeof(args) # "string" /\ typeof(args) # "object"
    THEN Thrown("InvalidArgument")                      \* filename is undefined
    ELSE IF args.type = "null"
    THEN Thrown("TypeError")                            \* args.filename of null
    ELSE
      LET isString == typeof(args) = "string"
          filename == IF isString THEN args ELSE args.val.filename
          compileAsModule == IF isString THEN TRUE ELSE args.val.compileAsModule # False
          electron == IF isString THEN False ELSE args.val.electron
          loaderFilename == IF isString THEN Undefined ELSE args.val.loaderFilename
          createLoader == IF isString THEN False ELSE True    \* lines 194, 199, 201
          argsOutput == IF isString THEN Undefined ELSE args.val.output
      IN IF typeof(filename) # "string"
         THEN Thrown("InvalidArgument")
         ELSE
           LET compiledFilename ==
                   IF truthy(argsOutput) THEN argsOutput
                   ELSE IF truthy(output) THEN output
                   ELSE Str(SubSeq(filename.val, 1, Len(filename.val) - 3)
                            \o COMPILED_EXTNAME)
           IN IF typeof(compiledFilename) # "string"
              THEN Thrown("InvalidArgument")
              ELSE
                LET read == readFileSync(filename.val)
                IN IF read.threw
                   THEN Thrown(read.error)
                   ELSE [threw |-> FALSE, error |-> "",
                         compiledFilename |-> compiledFilename.val,
                         code |-> IF compileAsModule
                                  THEN wrap(stripShebang(read.value))
                                  ELSE stripShebang(read.value),
                         electron |-> electron,
                         createLoader |-> createLoader,
                         loaderFilename |-> loaderFilename]

\* Lines 233-239: the call from the write of the artifact on.  The result is
\* the file system after it and the paths written, in order.
compileFileFinish(start, bytecode) ==
    LET written == writeFileSync(files, start.compiledFilename, bytecode)
    IN IF truthy(start.createLoader)
       THEN LET loader == addLoaderFile(written, start.compiledFilename,
                                        start.loaderFilename)
            IN [files |-> loader.files,
                writes |-> <<start.compiledFilename, loader.path>>]
       ELSE [files |-> written, writes |-> <<start.compiledFilename>>]

\* the compileFile call: its arguments, what it computed before the compile,
\* the promise it returned and the files it wrote
Compiling(state, args, output, start, error, writes) ==
    [state |-> state, args |-> args, output |-> output, start |-> start,
     error |-> error, writes |-> writes]

\* compileFile is an async function: it returns a promise, and what its body
\* throws rejects that promise
CompileFile ==
    /\ Quiet
    /\ \E args \in CompileArgs, output \in CompileOutputs :
          LET start == compileFileStart(args, output)
          IN /\ call' = [op |-> "compileFile", arg |-> Undefined, after |-> Undefined,
                         threw |-> FALSE, error |-> "", value |-> "", log |-> <<>>,
                         delivery |-> "promise"]
             /\ IF start.threw
                THEN /\ pending' = Compiling("rejected", args, output, start,
                                             start.error, <<>>)
                     /\ UNCHANGED <<files, proc, promise>>
                ELSE IF truthy(start.electron)
                THEN LET r == compileElectronCode(Str(start.code))
                     IN /\ proc' = r.proc
                        /\ promise' = r.promise
                        /\ pending' = Compiling("awaiting", args, output, start, "", <<>>)
                        /\ UNCHANGED files
                ELSE LET done == compileFileFinish(start, compileCode(Str(start.code)).value)
                     IN /\ files' = done.files
                        /\ pending' = Compiling("resolved", args, output, start, "",
                                                done.writes)
                        /\ UNCHANGED <<proc, promise>>
    /\ UNCHANGED <<envVars, bytecodeBuffer, original, patchedOnce, patches>>

\* line 228: the await ends when the promise of compileElectronCode settles
ResumeCompileFile ==
    /\ pending.state = "awaiting"
    /\ promise.state \in {"resolved", "rejected"}
    /\ IF promise.state = "rejected"
       THEN /\ pending' = [pending EXCEPT !.state = "rejected", !.error = promise.error]
            /\ UNCHANGED files
       ELSE LET done == compileFileFinish(pending.start, promise.value)
            IN /\ files' = done.files
               /\ pending' = [pending EXCEPT !.state = "resolved", !.writes = done.writes]
    /\ UNCHANGED <<envVars, bytecodeBuffer, original, patchedOnce, patches, call, proc,
                   promise>>

CompileCode ==
    /\ Quiet
    /\ \E javascriptCode \in CompileCodeArgs :
          call' = SyncCall("compileCode", javascriptCode,
                           compileCode(javascriptCode) @@ [buf |-> javascriptCode])
    /\ UNCHANGED <<envVars, bytecodeBuffer, original, patchedOnce, patches, files,
                   asyncVars>>

-----------------------------------------------------------------------------
(* The specification of the compile side: the calls of the API on one        *)
(* artifact, one compileFile call and one Electron child                     *)

InitCompile ==
    /\ version = V14 \o <<".", "2", "1">>
    /\ build \in Builds
    /\ verdict \in {v \in Verdicts : ~v.threw}
    /\ electronInstalled \in BOOLEAN
    /\ bytecodeBuffer = CacheBytes(HeaderLen, 3, 2)
    /\ original = bytecodeBuffer
    /\ patchedOnce = <<>>
    /\ patches = 0
    /\ call = NoCall
    /\ files = (SourceFile :> SourceText) @@ (ArtifactFile :> bytecodeBuffer)
    /\ proc = NoProc
    /\ promise = NoPromise
    /\ pending = NoPending

NextCompile ==
    \/ CompileCode
    \/ RunBytecode
    \/ RunBytecodeFile
    \/ CompileFile
    \/ ResumeCompileFile
    \/ CompileElectronCode
    \/ StdoutData
    \/ StdoutEnd
    \/ ProcExit
    \/ ProcError

SpecCompile == InitCompile /\ [][NextCompile]_vars

-----------------------------------------------------------------------------
(* Properties of the Header Patcher and the Source-Hash Reader *)

\* the reference Buffer of the patch, line 102
Reference == compileCode(Str(DummySource)).value

EarlyLayout == startsWith(version, V88) \/ startsWith(version, V89)
MidLayout ==
    \/ startsWith(version, V12) \/ startsWith(version, V13)
    \/ startsWith(version, V14) \/ startsWith(version, V15)

\* the byte offsets the claims give for each layout
ClaimedPatchOffsets ==
    IF EarlyLayout THEN 16..23 ELSE IF MidLayout THEN 12..15 ELSE 12..19
ClaimedLengthOffsets == IF EarlyLayout THEN 12..15 ELSE 8..11

\* C1: patching is idempotent: however often a Buffer was patched (directly or
\* by a run), it is byte for byte what it was after its first patch.
C1_IdempotentPatch ==
    patches >= 1 => bytecodeBuffer = patchedOnce

\* a Buffer the first patch changed was patched a second time
C1_Witness ==
    /\ patches >= 2
    /\ call.op = "fixBytecode"
    /\ patchedOnce # original

\* C7: after a patch the bytes at the offsets of the version's layout are the
\* reference Buffer's, every other byte is what it was, and the length is what
\* it was, also when the Buffer ends before or inside the patched range.
C7_PatchFrame ==
    patches >= 1 =>
        /\ Len(bytecodeBuffer) = Len(original)
        /\ \A i \in 0..(Len(original) - 1) :
              bytecodeBuffer[i + 1] =
                  IF i \in ClaimedPatchOffsets THEN Reference[i + 1] ELSE original[i + 1]

\* an unrecognized version patched a Buffer that ends inside the patched range
C7_Witness ==
    /\ patches >= 1
    /\ ~EarlyLayout /\ ~MidLayout
    /\ Len(original) = 18
    /\ bytecodeBuffer # original

\* C10: the length field is disjoint from the patched ranges, and a patched
\* Buffer decodes to the source length it decoded to before the patch.
C10_PatchKeepsLength ==
    /\ ClaimedLengthOffsets \cap ClaimedPatchOffsets = {}
    /\ patches >= 1 =>
          readSourceHash(Buf(bytecodeBuffer)).value = readSourceHash(Buf(original)).value

\* a patch changed a Buffer whose length field holds 258 = 2 + 1 * 256
C10_Witness ==
    /\ patches >= 1
    /\ bytecodeBuffer # original
    /\ readSourceHash(Buf(bytecodeBuffer)).value = 258

-----------------------------------------------------------------------------
(* Properties of the Bytecode Runner and the Module Loader Hook *)

Runs == {"runBytecode", "runBytecodeFile", "Module._extensions.jsc"}

\* the compile of the placeholder with the cached data, in a call's log
CacheCompiles(log) ==
    { i \in 1..Len(log) : log[i].fn = "vm.Script" /\ "cachedData" \in
                              { log[i].args[k] : k \in 1..Len(log[i].args) } }
Executions(log) == { i \in 1..Len(log) : log[i].fn = "runInThisContext" }
Applications(log) == { i \in 1..Len(log) : log[i].fn = "compiledWrapper.apply" }

\* C2: the placeholder handed to the engine is as long as the source length
\* the patched Buffer decodes to.
C2_PlaceholderLength ==
    call.op \in Runs =>
        \A i \in CacheCompiles(call.log) :
            Len(call.log[i].src) = readSourceHash(Buf(call.log[i].cache)).value

\* C3: run patches, compiles the placeholder with the patched Buffer and runs
\* the script only if the engine did not reject the cached data.
C3_RunOrder ==
    (call.op = "runBytecode" /\ isBuffer(call.arg)) =>
        /\ Len(call.log) >= 2
        /\ call.log[1] = Step("vm.Script", DummySource, <<>>, <<"produceCachedData">>)
        /\ call.log[2] = Step("vm.Script",
                              dummyCode(readSourceHash(Buf(bytecodeBuffer)).value),
                              bytecodeBuffer, <<"cachedData">>)
        /\ call.after = Buf(bytecodeBuffer)
        /\ bytecodeBuffer = patchedOnce
        /\ IF verdict.rejected
           THEN /\ call.threw /\ call.error = "IncompatibleCache"
                /\ Executions(call.log) = {}
                /\ Len(call.log) = 2
           ELSE /\ Executions(call.log) = {3}
                /\ Len(call.log) = 3
                /\ call.threw = verdict.threw
                /\ IF verdict.threw THEN call.error = verdict.value
                   ELSE call.value = verdict.value

\* the engine rejected the cached data of a Buffer and run failed
C3_Witness ==
    /\ call.op = "runBytecode"
    /\ isBuffer(call.arg)
    /\ verdict.rejected
    /\ call.error = "IncompatibleCache"

\* C4: run of what is no Buffer throws InvalidArgument, calls the engine for
\* nothing and leaves its argument and the caller's Buffer alone.
C4_RunRejectsNonBuffer ==
    (call.op = "runBytecode" /\ ~isBuffer(call.arg)) =>
        /\ call.threw /\ call.error = "InvalidArgument" /\ call.delivery = "throw"
        /\ call.log = <<>>
        /\ call.after = call.arg

\* run was given a string
C4_Witness ==
    /\ call.op = "runBytecode"
    /\ call.arg.type = "string"
    /\ call.threw /\ call.log = <<>>

\* the argument of the wrapper that binds each parameter of Module.wrap
ArgumentFor(param) ==
    CASE param = "exports" -> "module.exports"
      [] param = "require" -> "require"
      [] param = "module" -> "module"
      [] param = "__filename" -> "filename"
      [] param = "__dirname" -> "dirname"

\* C9: the loader does what run does for the same bytes up to the rejection
\* check, then runs the script and applies the wrapper once, to (exports,
\* require, module, filename, dirname, process, global), the first five in the
\* order of the parameters of Module.wrap; on rejection it applies nothing.
C9_LoaderFollowsRunner ==
    call.op = "Module._extensions.jsc" =>
        LET ran == runBytecode(Buf(original))
            log == call.log
        IN /\ Len(log) >= 2
           /\ \A i \in 1..2 : /\ log[i].fn = ran.log[i].fn
                              /\ log[i].src = ran.log[i].src
                              /\ log[i].cache = ran.log[i].cache
           /\ call.after = ran.buf
           /\ IF verdict.rejected
              THEN /\ call.threw /\ call.error = "IncompatibleCache"
                   /\ ran.threw /\ ran.error = "IncompatibleCache"
                   /\ Len(log) = 2
                   /\ Applications(log) = {}
              ELSE /\ Len(log) = 4
                   /\ Executions(log) = {3}
                   /\ Applications(log) = {4}
                   /\ log[4].args = <<"module.exports", "require", "module", "filename",
                                      "dirname", "process", "global">>
                   /\ \A k \in 1..Len(ModuleWrapParams) :
                          log[4].args[k] = ArgumentFor(ModuleWrapParams[k])
                   /\ call.threw = verdict.threw
                   /\ ~call.threw => call.value = verdict.value

\* an accepted artifact was loaded and its wrapper applied
C9_Witness ==
    /\ call.op = "Module._extensions.jsc"
    /\ ~verdict.rejected
    /\ Applications(call.log) = {4}
    /\ call.value = "42"

-----------------------------------------------------------------------------
(* Properties of the compile side *)

\* the caller asked for a loader file
LoaderAsked(args) ==
    /\ args.type = "object"
    /\ args.val.createLoader = True \/ truthy(args.val.loaderFilename)

\* C5: a compileFile call that was not asked for a loader file writes the
\* artifact and nothing else.
C5_LoaderOnlyWhenAsked ==
    (pending.state = "resolved" /\ ~LoaderAsked(pending.args)) =>
        pending.writes = <<pending.start.compiledFilename>>

\* the first argument of compileFile yields no string for a filename
NoFilename(args) ==
    /\ args.type # "null"
    /\ typeof(args) = "string" => FALSE
    /\ typeof(args) = "object" => typeof(args.val.filename) # "string"

\* C6 as claimed: no InvalidArgument failure is ever delivered as the rejection
\* of a promise; each is thrown by the call itself.
C6_AlwaysThrown ==
    /\ call.error = "InvalidArgument" => call.delivery = "throw"
    /\ ~(pending.state = "rejected" /\ pending.error = "InvalidArgument")
    /\ ~(promise.state = "rejected" /\ promise.error = "InvalidArgument")

\* C6 as amended: compileCode, runBytecode and runBytecodeFile throw
\* InvalidArgument themselves; compileFile and compileElectronCode return a
\* promise and deliver InvalidArgument as its rejection.
C6_Delivery ==
    /\ (call.op = "compileCode" /\ typeof(call.arg) # "string") =>
          call.delivery = "throw" /\ call.error = "InvalidArgument"
    /\ (call.op = "runBytecode" /\ ~isBuffer(call.arg)) =>
          call.delivery = "throw" /\ call.error = "InvalidArgument"
    /\ (call.op = "runBytecodeFile" /\ typeof(call.arg) # "string") =>
          call.delivery = "throw" /\ call.error = "InvalidArgument"
    /\ (pending.state # "none" /\ NoFilename(pending.args)) =>
          /\ call.op = "compileFile" /\ call.delivery = "promise" /\ ~call.threw
          /\ pending.state = "rejected" /\ pending.error = "InvalidArgument"
    /\ (call.op = "compileElectronCode" /\ ~electronInstalled) =>
          /\ call.delivery = "promise" /\ ~call.threw
          /\ promise.state = "rejected" /\ promise.error = "InvalidArgument"
          /\ proc.state = "none"
    /\ (pending.state # "none" /\ ~pending.start.threw /\ truthy(pending.start.electron)
        /\ ~electronInstalled) =>
          /\ call.delivery = "promise"
          /\ promise.state = "rejected" /\ promise.error = "InvalidArgument"
          /\ pending.state = "rejected" => pending.error = "InvalidArgument"

\* compileFile was given options without a filename and its promise is rejected
C6_Witness ==
    /\ call.op = "compileFile"
    /\ pending.state = "rejected"
    /\ pending.error = "InvalidArgument"
    /\ pending.args.type = "object"

\* C8: the promise of compileElectronCode settles once and, resolved, holds
\* every chunk the child's stdout emitted, in order of arrival, also the
\* chunks that arrived after it settled.
C8_ReturnsEverything ==
    /\ promise.settles <= 1
    /\ promise.state = "resolved" => promise.value = proc.emitted

====
